---- MODULE Spec2Model ----
(***************************************************************************)
(* A model of home-pager's server (src/server/main.go): the request path   *)
(* (middleware, router, handlers, upstream fetch), readiness, the request  *)
(* counter, the timeout resolver and the start/stop lifecycle.             *)
(*                                                                         *)
(* Text (environment values, file contents, HTTP bodies) is a sequence of  *)
(* lexemes [lex, len]: lex names the lexeme and len is its length in bytes.*)
(* The lexeme "ws" is a run of white space, "junk" a run of bytes that are *)
(* neither white space nor JSON.                                           *)
(***************************************************************************)
EXTENDS Integers, Sequences, FiniteSets, TLC

VARIABLES
    host,           \* os.Getenv("KUBERNETES_SERVICE_HOST")
    port,           \* os.Getenv("KUBERNETES_SERVICE_PORT")
    tokenFile,      \* the service-account token file: NoFile or its content
    httpClient,     \* the package variable httpClient
    kubeTimeout,    \* the timeout main hands to handleIngresses and the client
    totalRequests,  \* the package variable totalRequests
    now,            \* time since the request in flight arrived, in ticks
    req,            \* the request in flight on the sequential path
    reqs,           \* the requests of the concurrent path
    rawEnv,         \* the value of the timeout variable
    fallback,       \* the fallback handed to getEnvDuration
    resolved,       \* what getEnvDuration returned
    durPc,          \* "set" before getEnvDuration runs, "resolved" after
    mainPc,         \* where main is
    servePc,        \* where the goroutine of ListenAndServe is
    serveErr,       \* what ListenAndServe returned
    shutdownErr,    \* the channel shutdownErr: its buffer and whether it is closed
    stop,           \* the signals waiting in the channel stop
    notified,       \* signal.Notify has run
    signals,        \* the signals delivered so far
    inShutdown,     \* the server is marked as shutting down
    bound,          \* the listener is open
    everBound,      \* the listener has bound at some time
    conns,          \* the requests in flight
    drainClock,     \* seconds since server.Shutdown began
    shutdownResult, \* how server.Shutdown returned
    exitHow         \* "running", or how the process ended

reqVars == <<host, port, tokenFile, httpClient, kubeTimeout, totalRequests, now, req, reqs>>
durVars == <<rawEnv, fallback, resolved, durPc>>
lifeVars == <<mainPc, servePc, serveErr, shutdownErr, stop, notified, signals, inShutdown,
              bound, everBound, conns, drainClock, shutdownResult, exitHow>>
vars == <<reqVars, durVars, lifeVars>>

----------------------------------------------------------------------------
(* Bounds *)

MaxServed == 2
MaxTimeout == 2
MaxReqs == 2
MaxPad == 1
MaxSignals == 2
MaxConns == 1

MaxClock == MaxTimeout + 2

----------------------------------------------------------------------------
(* Text *)

Lex(l, n) == [lex |-> l, len |-> n]
WS(n) == Lex("ws", n)
Junk(n) == Lex("junk", n)

Min(a, b) == IF a <= b THEN a ELSE b
Max(a, b) == IF a >= b THEN a ELSE b

RECURSIVE TrimLeft(_)
TrimLeft(s) ==
    IF s = <<>> THEN s
    ELSE IF Head(s).lex = "ws" THEN TrimLeft(Tail(s)) ELSE s

RECURSIVE TrimRight(_)
TrimRight(s) ==
    IF s = <<>> THEN s
    ELSE IF s[Len(s)].lex = "ws" THEN TrimRight(SubSeq(s, 1, Len(s) - 1)) ELSE s

\* strings.TrimSpace
TrimSpace(s) == TrimRight(TrimLeft(s))

RECURSIVE ByteLen(_)
ByteLen(s) == IF s = <<>> THEN 0 ELSE Head(s).len + ByteLen(Tail(s))

\* s has t as a contiguous part (strings.Contains)
Contains(s, t) ==
    \E i \in 1..(Len(s) + 1) :
        /\ i + Len(t) - 1 <= Len(s)
        /\ SubSeq(s, i, i + Len(t) - 1) = t

\* The first n bytes of one lexeme that is longer than n bytes: a cut run of
\* white space or junk is a shorter run, any other lexeme cut short is junk.
CutLex(h, n) == IF h.lex \in {"ws", "junk"} THEN Lex(h.lex, n) ELSE Junk(n)

\* io.ReadAll(io.LimitReader(body, n))
RECURSIVE LimitRead(_, _)
LimitRead(s, n) ==
    IF s = <<>> \/ n = 0 THEN <<>>
    ELSE IF Head(s).len <= n
         THEN <<Head(s)>> \o LimitRead(Tail(s), n - Head(s).len)
         ELSE <<CutLex(Head(s), n)>>

\* The lexemes of s that are not white space (JSON ignores white space
\* between tokens)
Tokens(s) == SelectSeq(s, LAMBDA x : x.lex # "ws")

----------------------------------------------------------------------------
(* Program constants *)

maxIngressesBodyBytes == 4 * (2 ^ 20)

GET == "GET"
Methods == {"GET", "POST", "HEAD"}

ApiPath == "/api/ingresses"
HealthPath == "/healthz"
ReadyPath == "/readyz"
MetricsPath == "/metrics"
\* Paths of the catch-all: an asset under /app, /index.html (which the file
\* server redirects to ./) and a path with no file.
StaticPaths == {"/", "/index.html", "/missing"}
Paths == {ApiPath, HealthPath, ReadyPath, MetricsPath} \cup StaticPaths

----------------------------------------------------------------------------
(* Response headers *)

EmptyHdrs == [x \in {} |-> ""]
SetHdr(h, k, v) == [x \in (DOMAIN h) \cup {k} |-> IF x = k THEN v ELSE h[x]]
DelHdr(h, k) == [x \in (DOMAIN h) \ {k} |-> h[x]]

SecurityHeaders ==
    [n \in {"X-Content-Type-Options", "X-Frame-Options", "Referrer-Policy",
            "Content-Security-Policy", "Permissions-Policy"} |->
        CASE n = "X-Content-Type-Options" -> "nosniff"
          [] n = "X-Frame-Options" -> "DENY"
          [] n = "Referrer-Policy" -> "no-referrer"
          [] n = "Content-Security-Policy" ->
                "default-src 'self'; img-src 'self' data:; style-src 'self'; script-src 'self'; connect-src 'self'"
          [] n = "Permissions-Policy" -> "camera=(), microphone=(), geolocation=()"]

\* withSecurityHeaders, up to its call of next.ServeHTTP: five w.Header().Set
SetSecurityHeadersDropOne(h) ==
    SetHdr(SetHdr(SetHdr(SetHdr(h,
        "X-Content-Type-Options", SecurityHeaders["X-Content-Type-Options"]),
        "X-Frame-Options", SecurityHeaders["X-Frame-Options"]),
        "Referrer-Policy", SecurityHeaders["Referrer-Policy"]),
        "Content-Security-Policy", SecurityHeaders["Content-Security-Policy"])

SetSecurityHeaders(h) ==
    SetHdr(SetHdr(SetHdr(SetHdr(SetHdr(h,
        "X-Content-Type-Options", "nosniff"),
        "X-Frame-Options", "DENY"),
        "Referrer-Policy", "no-referrer"),
        "Content-Security-Policy",
            "default-src 'self'; img-src 'self' data:; style-src 'self'; script-src 'self'; connect-src 'self'"),
        "Permissions-Policy", "camera=(), microphone=(), geolocation=()")

----------------------------------------------------------------------------
(* Responses.  reported is the number a /metrics response renders as         *)
(* home_pager_http_requests_total, and -1 in every other response.          *)

Response(code, h, b) == [status |-> code, hdrs |-> h, body |-> b, reported |-> -1]

NoResponse == Response(0, EmptyHdrs, <<>>)

\* http.Error(w, msg, code): drops Content-Length, sets Content-Type and
\* X-Content-Type-Options, writes the status and msg followed by a newline
HttpError(h, msg, code) ==
    Response(code,
             SetHdr(SetHdr(DelHdr(h, "Content-Length"),
                           "Content-Type", "text/plain; charset=utf-8"),
                    "X-Content-Type-Options", "nosniff"),
             msg \o <<WS(1)>>)

----------------------------------------------------------------------------
(* JSON.  A document is the lexemes "{" "}" "[" "]" "null" "num" and        *)
(* "members" (the members of an object or the elements of an array).       *)
(* A Go map[string]interface{} is [isNil, members].                        *)

NilMap == [isNil |-> TRUE, members |-> <<>>]
GoMap(m) == [isNil |-> FALSE, members |-> m]

\* The members of the document {"items":[]}
ItemsMember == Lex("\"items\":[]", 10)

IsMembers(x) == x.lex = "members" \/ x = ItemsMember

IsObjectDoc(t) ==
    \/ /\ Len(t) = 2 /\ t[1].lex = "{" /\ t[2].lex = "}"
    \/ /\ Len(t) = 3 /\ t[1].lex = "{" /\ IsMembers(t[2]) /\ t[3].lex = "}"

IsOtherDoc(t) ==
    \/ /\ Len(t) = 2 /\ t[1].lex = "[" /\ t[2].lex = "]"
    \/ /\ Len(t) = 3 /\ t[1].lex = "[" /\ t[2].lex = "members" /\ t[3].lex = "]"
    \/ /\ Len(t) = 1 /\ t[1].lex = "num"

IsNullDoc(t) == Len(t) = 1 /\ t[1].lex = "null"

\* json.Unmarshal(body, &result) with var result map[string]interface{}:
\* a syntax error for what is no JSON value, a type error for an array or
\* a scalar, no error and the map left nil for null.
Unmarshal(body) ==
    LET t == Tokens(body) IN
    IF IsObjectDoc(t)
    THEN [err |-> <<>>, result |-> GoMap(SubSeq(t, 2, Len(t) - 1))]
    ELSE IF IsNullDoc(t)
    THEN [err |-> <<>>, result |-> NilMap]
    ELSE IF IsOtherDoc(t)
    THEN [err |-> <<Lex("json: cannot unmarshal into Go value of type map[string]interface {}", 68)>>,
          result |-> NilMap]
    ELSE [err |-> <<Lex("json: syntax error", 18)>>, result |-> NilMap]

\* json.NewEncoder(w).Encode(m) of a map: the document and a newline
Encode(m) ==
    IF m.isNil THEN <<Lex("null", 4), WS(1)>>
    ELSE <<Lex("{", 1)>> \o m.members \o <<Lex("}", 1), WS(1)>>

\* map[string]interface{}{"items": []interface{}{}}
EmptyItems == GoMap(<<ItemsMember>>)

\* map[string]string{"status": "ok"}, {"status": "ready"}, {"status": "not ready"}
StatusOk == GoMap(<<Lex("\"status\":\"ok\"", 13)>>)
StatusReady == GoMap(<<Lex("\"status\":\"ready\"", 16)>>)
StatusNotReady == GoMap(<<Lex("\"status\":\"not ready\"", 20)>>)

----------------------------------------------------------------------------
(* The environment of a request *)

\* What os.ReadFile of the token file returns
NoFile == [readable |-> FALSE, content |-> <<>>]
File(c) == [readable |-> TRUE, content |-> c]

NilClient == "nil"
\* initKubernetesClient: a client on the default trust store when the CA
\* file cannot be read, a client pinned to the CA pool when it can
Clients == {"default", "pinned"}

\* isReady
isReadyBothAbsent ==
    LET apiServer == TrimSpace(host)
        apiPort == TrimSpace(port)
    IN  IF apiServer = <<>> /\ apiPort = <<>> THEN TRUE
        ELSE IF httpClient = NilClient THEN FALSE
        ELSE IF ~tokenFile.readable THEN FALSE
        ELSE TrimSpace(tokenFile.content) # <<>>

isReady ==
    LET apiServer == TrimSpace(host)
        apiPort == TrimSpace(port)
    IN  IF apiServer = <<>> \/ apiPort = <<>> THEN TRUE
        ELSE IF httpClient = NilClient THEN FALSE
        ELSE IF ~tokenFile.readable THEN FALSE
        ELSE TrimSpace(tokenFile.content) # <<>>

----------------------------------------------------------------------------
(* The upstream exchange.  What httpClient.Do and the read of the body     *)
(* return: a response [code, body], a transport error, or the error of a   *)
(* context that is done.                                                   *)

UpResponse(c, b) == [kind |-> "response", code |-> c, body |-> b]
UpTransportError == [kind |-> "transport", code |-> 0, body |-> <<>>]
UpCtxDone == [kind |-> "ctx", code |-> 0, body |-> <<>>]

\* resp.Status
StatusLine(code) ==
    CASE code = 200 -> Lex("200 OK", 6)
      [] code = 204 -> Lex("204 No Content", 14)
      [] code = 403 -> Lex("403 Forbidden", 13)
      [] OTHER -> Lex("503 Service Unavailable", 23)

UpstreamCodes == {200, 204, 403, 503}

UpstreamBodies == {
    <<>>,
    <<Lex("{", 1), Lex("}", 1)>>,
    <<WS(1), Lex("{", 1), Lex("members", 10), Lex("}", 1), WS(1)>>,
    <<Lex("[", 1), Lex("members", 3), Lex("]", 1)>>,
    <<Lex("num", 1)>>,
    <<Lex("null", 4)>>,
    <<Lex("{", 1), Lex("members", 10)>>,
    <<WS(1), Junk(14), WS(2)>>,
    <<Junk(maxIngressesBodyBytes + 1)>>,
    <<WS(maxIngressesBodyBytes), Lex("{", 1), Lex("}", 1)>>,
    <<Lex("{", 1), Lex("members", maxIngressesBodyBytes), Lex("}", 1)>> }

UpstreamResults ==
    {UpResponse(c, b) : c \in UpstreamCodes, b \in UpstreamBodies}
        \cup {UpTransportError}

\* http.NewRequestWithContext parses the URL "https://" + host + ":" + port
\* + path: white space in the host or in the port is an error
ValidURL == Tokens(host) = host /\ Tokens(port) = port

FetchResult(e, m, t, u, p) ==
    [err |-> e, result |-> m, tokenReads |-> t, upstreamCalls |-> u, panicked |-> p]

\* The error fetchIngresses makes of a response whose status is not 200
apiErrorNoStatus(resp) ==
    <<Lex("kubernetes api error: ", 22), WS(1)>>
        \o TrimSpace(LimitRead(resp.body, maxIngressesBodyBytes))

apiError(resp) ==
    <<Lex("kubernetes api error: ", 22), StatusLine(resp.code), WS(1)>>
        \o TrimSpace(LimitRead(resp.body, maxIngressesBodyBytes))

\* fetchIngresses calling httpClient.Do a second time after a transport error
fetchAfterDoRetries(up) ==
    IF up.kind = "transport"
    THEN FetchResult(<<Lex("Get: transport error", 20)>>, NilMap, 1, 2, FALSE)
    ELSE IF up.kind = "ctx"
    THEN FetchResult(<<Lex("Get: context done", 17)>>, NilMap, 1, 1, FALSE)
    ELSE IF up.code # 200
    THEN FetchResult(apiError(up), NilMap, 1, 1, FALSE)
    ELSE LET u == Unmarshal(LimitRead(up.body, maxIngressesBodyBytes)) IN
         FetchResult(u.err, u.result, 1, 1, FALSE)
\* fetchIngresses from the return of httpClient.Do on
fetchAfterDo(up) ==
    IF up.kind = "transport"
    THEN FetchResult(<<Lex("Get: transport error", 20)>>, NilMap, 1, 1, FALSE)
    ELSE IF up.kind = "ctx"
    THEN FetchResult(<<Lex("Get: context done", 17)>>, NilMap, 1, 1, FALSE)
    ELSE IF up.code # 200
    THEN FetchResult(apiError(up), NilMap, 1, 1, FALSE)
    ELSE LET u == Unmarshal(LimitRead(up.body, maxIngressesBodyBytes)) IN
         FetchResult(u.err, u.result, 1, 1, FALSE)

\* How far fetchIngresses gets before it blocks in httpClient.Do
fetchStageNoShortCircuit ==
    IF ~tokenFile.readable THEN "tokenErr"
    ELSE IF ~ValidURL THEN "urlErr"
    ELSE IF httpClient = NilClient THEN "panic"
    ELSE "do"

fetchStage ==
    IF host = <<>> \/ port = <<>> THEN "empty"
    ELSE IF ~tokenFile.readable THEN "tokenErr"
    ELSE IF ~ValidURL THEN "urlErr"
    ELSE IF httpClient = NilClient THEN "panic"
    ELSE "do"

\* fetchIngresses, with up what httpClient.Do returns if it is called
fetchIngresses(up) ==
    CASE fetchStage = "empty" -> FetchResult(<<>>, EmptyItems, 0, 0, FALSE)
      [] fetchStage = "tokenErr" ->
            FetchResult(<<Lex("open token: no such file or directory", 37)>>, NilMap, 1, 0, FALSE)
      [] fetchStage = "urlErr" ->
            FetchResult(<<Lex("parse url: invalid host or port", 31)>>, NilMap, 1, 0, FALSE)
      [] fetchStage = "panic" -> FetchResult(<<>>, NilMap, 1, 0, TRUE)
      [] OTHER -> fetchAfterDo(up)

----------------------------------------------------------------------------
(* Handlers.  Each takes the response headers set so far and returns what  *)
(* the handler did: the response, the reads of the token file, the         *)
(* upstream calls, and whether it panicked (no response is written).       *)

Handled(r, t, u) == [resp |-> r, tokenReads |-> t, upstreamCalls |-> u, panicked |-> FALSE]
Panicked(t, u) == [resp |-> NoResponse, tokenReads |-> t, upstreamCalls |-> u, panicked |-> TRUE]

handleIngressesAnyMethod(method, h, up) ==
    LET f == fetchIngresses(up) IN
    IF f.panicked THEN Panicked(f.tokenReads, f.upstreamCalls)
    ELSE IF f.err # <<>>
    THEN Handled(HttpError(h, f.err, 500), f.tokenReads, f.upstreamCalls)
    ELSE Handled(Response(200,
                          SetHdr(SetHdr(h, "Content-Type", "application/json"),
                                 "Cache-Control", "no-cache"),
                          Encode(f.result)),
                 f.tokenReads, f.upstreamCalls)

handleIngresses(method, h, up) ==
    IF method # GET
    THEN Handled(HttpError(h, <<Lex("Method not allowed", 18)>>, 405), 0, 0)
    ELSE LET f == fetchIngresses(up) IN
         IF f.panicked THEN Panicked(f.tokenReads, f.upstreamCalls)
         ELSE IF f.err # <<>>
         THEN Handled(HttpError(h, f.err, 500), f.tokenReads, f.upstreamCalls)
         ELSE Handled(Response(200,
                               SetHdr(SetHdr(h, "Content-Type", "application/json"),
                                      "Cache-Control", "no-cache"),
                               Encode(f.result)),
                      f.tokenReads, f.upstreamCalls)

handleHealth(h) ==
    Handled(Response(200, SetHdr(h, "Content-Type", "application/json"), Encode(StatusOk)), 0, 0)

\* handleReady reads the token file inside isReady when both variables are set
\* and the client is constructed
handleReady(h) ==
    LET reads == IF TrimSpace(host) # <<>> /\ TrimSpace(port) # <<>>
                    /\ httpClient # NilClient THEN 1 ELSE 0
    IN  IF ~isReady
        THEN Handled(Response(503, SetHdr(h, "Content-Type", "application/json"),
                              Encode(StatusNotReady)), reads, 0)
        ELSE Handled(Response(200, SetHdr(h, "Content-Type", "application/json"),
                              Encode(StatusReady)), reads, 0)

handleMetrics(h) ==
    Handled([Response(200, SetHdr(h, "Content-Type", "text/plain; version=0.0.4"),
                      <<Lex("home_pager_uptime_seconds", 25), WS(1),
                        Lex("home_pager_http_requests_total", 30), WS(1)>>)
                EXCEPT !.reported = totalRequests], 0, 0)

\* http.FileServer(http.Dir("/app")): an asset, the redirect of /index.html,
\* or 404 through http.Error
FileServer(path, h) ==
    CASE path = "/" ->
            Handled(Response(200,
                             SetHdr(SetHdr(SetHdr(h, "Content-Type", "text/html; charset=utf-8"),
                                           "Last-Modified", "mtime"),
                                    "Accept-Ranges", "bytes"),
                             <<Lex("index.html", 100)>>), 0, 0)
      [] path = "/index.html" ->
            Handled(Response(301, SetHdr(h, "Location", "./"), <<>>), 0, 0)
      [] OTHER -> Handled(HttpError(h, <<Lex("404 page not found", 18)>>, 404), 0, 0)

\* mux.ServeHTTP: the four exact patterns and the catch-all "/"
ServeMux(path, method, h, up) ==
    CASE path = ApiPath -> handleIngresses(method, h, up)
      [] path = HealthPath -> handleHealth(h)
      [] path = ReadyPath -> handleReady(h)
      [] path = MetricsPath -> handleMetrics(h)
      [] OTHER -> FileServer(path, h)

\* Whether the handler of this request blocks in httpClient.Do
Blocks(path, method) == path = ApiPath /\ method = GET /\ fetchStage = "do"

----------------------------------------------------------------------------
(* The sequential path: one request at a time through                      *)
(* withSecurityHeaders(withRequestMetrics(mux)), with a clock.             *)

EnvValues == {<<>>, <<WS(1)>>, <<Lex("kubernetes.default.svc", 22)>>}
PortValues == {<<>>, <<WS(1)>>, <<Lex("443", 3)>>}
TokenFiles == {NoFile, File(<<WS(1)>>), File(<<Lex("token", 5), WS(1)>>)}
Timeouts == (-1)..MaxTimeout

\* No cancellation within the horizon of the clock
Never == MaxClock + 1

Request(pc, path, method, cancelAt) ==
    [pc |-> pc, path |-> path, method |-> method, cancelAt |-> cancelAt,
     hdrs |-> EmptyHdrs, resp |-> NoResponse, tokenReads |-> 0, upstreamCalls |-> 0,
     ctxStart |-> 0, ctxDeadline |-> 0, up |-> UpCtxDone]

NoRequest == Request("none", "/", GET, Never)

\* context.WithTimeout(r.Context(), timeout) at time start: done when the
\* timeout has passed or the request's own context is done
WithTimeoutBackground(cancelAt, start, timeout) == start + timeout

WithTimeout(cancelAt, start, timeout) == Min(start + timeout, cancelAt)

\* http.Client.Timeout: a limit on the whole exchange when it is positive
ClientDeadline(start) == IF kubeTimeout > 0 THEN start + kubeTimeout ELSE Never

\* The time at which httpClient.Do stops waiting for the upstream
DoDeadline(r) == Min(r.ctxDeadline, ClientDeadline(r.ctxStart))

ReqInit ==
    /\ host \in EnvValues
    /\ port \in PortValues
    /\ tokenFile \in TokenFiles
    /\ httpClient \in Clients \cup {NilClient}
    /\ kubeTimeout \in Timeouts
    /\ totalRequests = 0
    /\ now = 0
    /\ req = NoRequest
    /\ reqs = <<>>

Config == <<host, port, tokenFile, httpClient, kubeTimeout>>

\* A request arrives at server.Handler
Arrive ==
    /\ req.pc \in {"none", "done", "panicked"}
    /\ totalRequests < MaxServed
    /\ \E path \in Paths, method \in Methods :
            req' = Request("security", path, method, Never)
    /\ now' = 0
    /\ UNCHANGED <<Config, durVars, lifeVars, totalRequests, reqs>>

withSecurityHeaders ==
    /\ req.pc = "security"
    /\ req' = [req EXCEPT !.hdrs = SetSecurityHeaders(req.hdrs), !.pc = "metrics"]
    /\ UNCHANGED <<Config, durVars, lifeVars, totalRequests, now, reqs>>

\* atomic.AddUint64(&totalRequests, 1): one indivisible step.  (The counter
\* is 64 bits wide; the bounds here stay far below 2^64.)
StoreUint64(n, delta) == delta

AddUint64(n, delta) == n + delta

withRequestMetrics ==
    /\ req.pc = "metrics"
    /\ totalRequests' = AddUint64(totalRequests, 1)
    /\ req' = [req EXCEPT !.pc = "mux"]
    /\ UNCHANGED <<Config, durVars, lifeVars, now, reqs>>

Finish(r, out) ==
    [r EXCEPT !.pc = IF out.panicked THEN "panicked" ELSE "done",
              !.resp = out.resp,
              !.hdrs = out.resp.hdrs,
              !.tokenReads = out.tokenReads,
              !.upstreamCalls = out.upstreamCalls]

\* The handler of a request that does not reach httpClient.Do
Serve ==
    /\ req.pc = "mux"
    /\ ~Blocks(req.path, req.method)
    /\ req' = Finish(req, ServeMux(req.path, req.method, req.hdrs, UpCtxDone))
    /\ UNCHANGED <<Config, durVars, lifeVars, totalRequests, now, reqs>>

\* handleIngresses up to the call of httpClient.Do.  cancelAt is the time at
\* which the request's own context is done (the client goes away): a time
\* not after now is a context that is done already.
CallUpstream ==
    /\ req.pc = "mux"
    /\ Blocks(req.path, req.method)
    /\ \E cancelAt \in (0..MaxClock) \cup {Never} :
            req' = [req EXCEPT !.pc = "waiting",
                               !.cancelAt = cancelAt,
                               !.tokenReads = 1,
                               !.upstreamCalls = 1,
                               !.ctxStart = now,
                               !.ctxDeadline = WithTimeout(cancelAt, now, kubeTimeout)]
    /\ UNCHANGED <<Config, durVars, lifeVars, totalRequests, now, reqs>>

\* httpClient.Do returns what the upstream sent, or a transport error
DoReturns ==
    /\ req.pc = "waiting"
    /\ now < DoDeadline(req)
    /\ \E up \in UpstreamResults :
            req' = Finish([req EXCEPT !.up = up],
                          ServeMux(req.path, req.method, req.hdrs, up))
    /\ UNCHANGED <<Config, durVars, lifeVars, totalRequests, now, reqs>>

\* httpClient.Do returns because its context is done or the client's
\* timeout has passed
DoCancelled ==
    /\ req.pc = "waiting"
    /\ now >= DoDeadline(req)
    /\ req' = Finish([req EXCEPT !.up = UpCtxDone],
                     ServeMux(req.path, req.method, req.hdrs, UpCtxDone))
    /\ UNCHANGED <<Config, durVars, lifeVars, totalRequests, now, reqs>>

\* Time passes.  A call blocked in httpClient.Do returns as soon as its
\* deadline is reached, so no time passes beyond it while the call waits.
Tick ==
    /\ \/ req.pc = "mux" /\ now < MaxClock - MaxTimeout
       \/ req.pc = "waiting" /\ now < DoDeadline(req) /\ now < MaxClock
    /\ now' = now + 1
    /\ UNCHANGED <<Config, durVars, lifeVars, totalRequests, req, reqs>>

\* The kubelet rotates the token, or the mount changes, between two requests
TokenChanges ==
    /\ req.pc \in {"none", "done", "panicked"}
    /\ \E f \in TokenFiles : f # tokenFile /\ tokenFile' = f
    /\ req' = NoRequest
    /\ UNCHANGED <<host, port, httpClient, kubeTimeout, totalRequests, now, reqs,
                   durVars, lifeVars>>

ReqNext ==
    \/ Arrive
    \/ withSecurityHeaders
    \/ withRequestMetrics
    \/ Serve
    \/ CallUpstream
    \/ DoReturns
    \/ DoCancelled
    \/ Tick
    \/ TokenChanges

----------------------------------------------------------------------------
(* The concurrent path: MaxReqs requests, each on its own goroutine,       *)
(* interleaved at every step of the middleware chain.  A request's path,   *)
(* method and upstream result are read when the router runs.               *)

ConcReqs == 1..MaxReqs

ConcRequest(pc) == [pc |-> pc, hdrs |-> EmptyHdrs, status |-> 0, reported |-> -1]

\* Upstream results of the concurrent path: a document, an error status, a
\* transport error, a context that is done
ConcUpstream ==
    {UpResponse(200, <<Lex("{", 1), Lex("}", 1)>>),
     UpResponse(403, <<WS(1), Junk(14), WS(2)>>),
     UpTransportError, UpCtxDone}

ConcInit ==
    /\ host \in {<<>>, <<Lex("kubernetes.default.svc", 22)>>}
    /\ port = <<Lex("443", 3)>>
    /\ tokenFile \in {NoFile, File(<<Lex("token", 5), WS(1)>>)}
    /\ httpClient \in {NilClient, "pinned"}
    /\ kubeTimeout = 1
    /\ totalRequests = 0
    /\ now = 0
    /\ req = NoRequest
    /\ reqs = [i \in ConcReqs |-> ConcRequest("none")]

ArriveC(i) ==
    /\ reqs[i].pc = "none"
    /\ reqs' = [reqs EXCEPT ![i].pc = "security"]
    /\ UNCHANGED <<Config, durVars, lifeVars, totalRequests, now, req>>

withSecurityHeadersC(i) ==
    /\ reqs[i].pc = "security"
    /\ reqs' = [reqs EXCEPT ![i].hdrs = SetSecurityHeaders(@), ![i].pc = "metrics"]
    /\ UNCHANGED <<Config, durVars, lifeVars, totalRequests, now, req>>

withRequestMetricsC(i) ==
    /\ reqs[i].pc = "metrics"
    /\ totalRequests' = AddUint64(totalRequests, 1)
    /\ reqs' = [reqs EXCEPT ![i].pc = "mux"]
    /\ UNCHANGED <<Config, durVars, lifeVars, now, req>>

\* The inner handler, from the router to the end of the response
ServeC(i) ==
    /\ reqs[i].pc = "mux"
    /\ \E path \in Paths, method \in Methods, up \in ConcUpstream :
        LET out == ServeMux(path, method, reqs[i].hdrs, up) IN
        reqs' = [reqs EXCEPT ![i].pc = IF out.panicked THEN "panicked" ELSE "done",
                             ![i].hdrs = out.resp.hdrs,
                             ![i].status = out.resp.status,
                             ![i].reported = out.resp.reported]
    /\ UNCHANGED <<Config, durVars, lifeVars, totalRequests, now, req>>

ConcNext ==
    \E i \in ConcReqs :
        \/ ArriveC(i)
        \/ withSecurityHeadersC(i)
        \/ withRequestMetricsC(i)
        \/ ServeC(i)

----------------------------------------------------------------------------
(* Integers of 64 bits and wider.  TLC's integers are 32 bits wide, so a   *)
(* natural number is a little-endian sequence of limbs in base 2^8: an      *)
(* int64 or a time.Duration is 8 limbs in two's complement, and exact       *)
(* arithmetic is done on WideLimbs limbs.                                   *)

LimbBase == 2 ^ 8
Int64Limbs == 64 \div 8
WideLimbs == Int64Limbs + 6

Wide(n) == [i \in 1..WideLimbs |-> IF i = 1 THEN n ELSE 0]
IsZero(x) == \A i \in 1..Len(x) : x[i] = 0

\* x * k + c, on the limbs of x (k and c small)
RECURSIVE MulAdd(_, _, _)
MulAdd(x, k, c) ==
    IF x = <<>> THEN <<>>
    ELSE LET v == Head(x) * k + c IN
         <<v % LimbBase>> \o MulAdd(Tail(x), k, v \div LimbBase)

\* x + y on limbs of the same width
RECURSIVE AddLimbs(_, _, _)
AddLimbs(x, y, c) ==
    IF x = <<>> THEN <<>>
    ELSE LET v == Head(x) + Head(y) + c IN
         <<v % LimbBase>> \o AddLimbs(Tail(x), Tail(y), v \div LimbBase)

\* -1, 0 or 1 as x is less than, equal to or greater than y
RECURSIVE Cmp(_, _)
Cmp(x, y) ==
    IF x = <<>> THEN 0
    ELSE LET n == Len(x) IN
         IF x[n] < y[n] THEN -1
         ELSE IF x[n] > y[n] THEN 1
         ELSE Cmp(SubSeq(x, 1, n - 1), SubSeq(y, 1, n - 1))

\* x times each factor of fs in turn
RECURSIVE MulAll(_, _)
MulAll(x, fs) == IF fs = <<>> THEN x ELSE MulAll(MulAdd(x, Head(fs), 0), Tail(fs))

\* 1<<63 and 1<<63 - 1
Pow63 == [i \in 1..WideLimbs |-> IF i = Int64Limbs THEN LimbBase \div 2 ELSE 0]
MaxInt64 == [i \in 1..WideLimbs |->
                IF i < Int64Limbs THEN LimbBase - 1
                ELSE IF i = Int64Limbs THEN (LimbBase \div 2) - 1 ELSE 0]

\* The conversion of a wide natural to int64: its low 64 bits
ToInt64(x) == SubSeq(x, 1, Int64Limbs)
\* The natural number that a non-negative int64 is
FromInt64(d) == [i \in 1..WideLimbs |-> IF i <= Int64Limbs THEN d[i] ELSE 0]
Negative64(d) == d[Int64Limbs] >= LimbBase \div 2
Positive64(d) == ~Negative64(d) /\ ~IsZero(d)

\* time.Second (and the other units of time.ParseDuration) in nanoseconds,
\* as factors
NanosPerSecond == <<1000, 1000, 1000>>

\* n * time.Second for a small n
Seconds(n) == ToInt64(MulAll(Wide(n), NanosPerSecond))

----------------------------------------------------------------------------
(* strconv.Atoi, time.ParseDuration and getEnvDuration.  A string is a      *)
(* sequence of one-byte lexemes; the strings used have no "." (fractions   *)
(* of time.ParseDuration are not modelled).                                 *)

Ch(c) == Lex(c, 1)
Str(cs) == [i \in 1..Len(cs) |-> IF cs[i] = " " THEN WS(1) ELSE Ch(cs[i])]

DigitVal ==
    ("0" :> 0) @@ ("1" :> 1) @@ ("2" :> 2) @@ ("3" :> 3) @@ ("4" :> 4) @@
    ("5" :> 5) @@ ("6" :> 6) @@ ("7" :> 7) @@ ("8" :> 8) @@ ("9" :> 9)
IsDigit(x) == x.lex \in DOMAIN DigitVal

\* The value of a run of digits; a value beyond 1<<63 stays beyond it
RECURSIVE DigitsValue(_, _)
DigitsValue(s, acc) ==
    IF s = <<>> THEN acc
    ELSE IF Cmp(acc, Pow63) > 0 THEN acc
    ELSE DigitsValue(Tail(s), MulAdd(acc, 10, DigitVal[Head(s).lex]))

\* The longest prefix of s whose lexemes all satisfy (digits = TRUE) or all
\* fail (digits = FALSE) IsDigit
RECURSIVE RunLen(_, _)
RunLen(s, digits) ==
    IF s = <<>> \/ IsDigit(Head(s)) # digits THEN 0 ELSE 1 + RunLen(Tail(s), digits)

Parsed(ok, neg, mag) == [ok |-> ok, neg |-> neg, mag |-> mag]
ParseError == Parsed(FALSE, FALSE, Wide(0))

\* strconv.Atoi on a 64-bit platform: an optional sign and decimal digits,
\* in the range of int
Atoi(s) ==
    LET signed == s # <<>> /\ Head(s).lex \in {"+", "-"}
        neg == signed /\ Head(s).lex = "-"
        digits == IF signed THEN Tail(s) ELSE s
        mag == DigitsValue(digits, Wide(0))
    IN  IF digits = <<>> \/ RunLen(digits, TRUE) # Len(digits) THEN ParseError
        ELSE IF neg /\ Cmp(mag, Pow63) > 0 THEN ParseError
        ELSE IF ~neg /\ Cmp(mag, MaxInt64) > 0 THEN ParseError
        ELSE Parsed(TRUE, neg, mag)

\* unitMap of time.ParseDuration
UnitFactors(u) ==
    CASE u = Str(<<"n", "s">>) -> <<1>>
      [] u = Str(<<"u", "s">>) -> <<1000>>
      [] u = Str(<<"m", "s">>) -> <<1000, 1000>>
      [] u = Str(<<"s">>) -> NanosPerSecond
      [] u = Str(<<"m">>) -> NanosPerSecond \o <<60>>
      [] u = Str(<<"h">>) -> NanosPerSecond \o <<3600>>
      [] OTHER -> <<>>

\* The loop of time.ParseDuration over the groups digits-unit, with d the
\* sum so far: an error when a group has no digits or no known unit, or a
\* value passes 1<<63
RECURSIVE ParseGroups(_, _)
ParseGroups(s, d) ==
    IF s = <<>> THEN Parsed(TRUE, FALSE, d)
    ELSE LET nd == RunLen(s, TRUE)
             rest == SubSeq(s, nd + 1, Len(s))
             nu == RunLen(rest, FALSE)
             v == DigitsValue(SubSeq(s, 1, nd), Wide(0))
             fs == UnitFactors(SubSeq(rest, 1, nu))
             vu == MulAll(v, fs)
             sum == AddLimbs(d, vu, 0)
         IN  IF nd = 0 \/ nu = 0 \/ fs = <<>> THEN ParseError
             ELSE IF Cmp(v, Pow63) > 0 \/ Cmp(vu, Pow63) > 0 \/ Cmp(sum, Pow63) > 0
             THEN ParseError
             ELSE ParseGroups(SubSeq(rest, nu + 1, Len(rest)), sum)

\* time.ParseDuration
ParseDuration(s) ==
    LET signed == s # <<>> /\ Head(s).lex \in {"+", "-"}
        neg == signed /\ Head(s).lex = "-"
        body == IF signed THEN Tail(s) ELSE s
        g == ParseGroups(body, Wide(0))
    IN  IF body = Str(<<"0">>) THEN Parsed(TRUE, FALSE, Wide(0))
        ELSE IF body = <<>> \/ ~g.ok THEN ParseError
        ELSE IF ~neg /\ Cmp(g.mag, MaxInt64) > 0 THEN ParseError
        ELSE Parsed(TRUE, neg, g.mag)

\* time.Duration(seconds) * time.Second: a product of two int64, which wraps
SecondsToDuration(mag) == ToInt64(MulAll(mag, NanosPerSecond))

\* getEnvDuration, with raw the value of the variable
getEnvDuration(raw, fb) ==
    LET r == TrimSpace(raw)
        a == Atoi(r)
        p == ParseDuration(r)
    IN  IF r = <<>> THEN fb
        ELSE IF a.ok
        THEN IF a.neg \/ IsZero(a.mag) THEN fb ELSE SecondsToDuration(a.mag)
        ELSE IF p.ok /\ ~p.neg /\ ~IsZero(p.mag) THEN ToInt64(p.mag)
        ELSE fb

----------------------------------------------------------------------------
(* The resolver on its own: the variable is set, then getEnvDuration runs, *)
(* as in TestGetEnvDuration.                                               *)

DurCores == {
    <<>>,
    Str(<<"1", "5">>),
    Str(<<"0">>),
    Str(<<"2", "5", "0", "m", "s">>),
    Str(<<"g">>),
    Str(<<"-", "5">>),
    Str(<<"+", "1", "5">>),
    Str(<<"1", "h">>),
    Str(<<"0", "s">>),
    Str(<<"-", "1", "s">>),
    Str(<<"1", "m", "3", "0", "s">>),
    Str(<<"1", "5", "s">>),
    Str(<<"5", "x">>),
    Str(<<"s">>),
    Str(<<"-">>),
    Str(<<"1", "n", "s">>),
    Str(<<"9", "2", "2", "3", "3", "7", "2", "0", "3", "6">>),
    Str(<<"9", "2", "2", "3", "3", "7", "2", "0", "3", "7">>),
    Str(<<"1", "8", "4", "4", "6", "7", "4", "4", "0", "7", "4">>),
    Str(<<"3", "6", "0", "2", "8", "7", "9", "7", "0", "1", "8", "9", "6", "3", "9", "6", "8">>),
    Str(<<"9", "2", "2", "3", "3", "7", "2", "0", "3", "6", "8", "5", "4", "7", "7", "5", "8", "0", "7">>),
    Str(<<"9", "2", "2", "3", "3", "7", "2", "0", "3", "6", "8", "5", "4", "7", "7", "5", "8", "0", "8">>),
    Str(<<"2", "5", "6", "2", "0", "4", "7", "h">>),
    Str(<<"2", "5", "6", "2", "0", "4", "8", "h">>),
    Str(<<"0", "0", "0", "1", "5">>),
    Str(<<"-", "0">>) }

Pad(n) == [i \in 1..n |-> WS(1)]
DurInputs == {Pad(l) \o c \o Pad(r) : l \in 0..MaxPad, r \in 0..MaxPad, c \in DurCores}

\* defaultHTTPTimeout (10 s) and the fallback of the test (5 s)
Fallbacks == {Seconds(10), Seconds(5)}

DurIdle ==
    /\ rawEnv = <<>>
    /\ fallback = Seconds(10)
    /\ resolved = Seconds(10)
    /\ durPc = "idle"

DurInit ==
    /\ rawEnv \in DurInputs
    /\ fallback \in Fallbacks
    /\ resolved = fallback
    /\ durPc = "set"

\* t.Setenv, or the environment the process starts in
Setenv ==
    /\ durPc = "resolved"
    /\ \E v \in DurInputs : v # rawEnv /\ rawEnv' = v
    /\ durPc' = "set"
    /\ UNCHANGED <<fallback, resolved, reqVars, lifeVars>>

Resolve ==
    /\ durPc = "set"
    /\ resolved' = getEnvDuration(rawEnv, fallback)
    /\ durPc' = "resolved"
    /\ UNCHANGED <<rawEnv, fallback, reqVars, lifeVars>>

DurNext == Setenv \/ Resolve

----------------------------------------------------------------------------
(* The lifecycle: main, the goroutine that runs server.ListenAndServe, the *)
(* signals, and server.Shutdown.                                           *)

\* The 10 seconds of the context handed to server.Shutdown
ShutdownTimeout == 10

Running == exitHow = "running"

LifeInit ==
    /\ mainPc = "spawn"
    /\ servePc = "none"
    /\ serveErr = "nil"
    /\ shutdownErr = [buf |-> <<>>, closed |-> FALSE]
    /\ stop = 0
    /\ notified = FALSE
    /\ signals = 0
    /\ inShutdown = FALSE
    /\ bound = FALSE
    /\ everBound = FALSE
    /\ conns = 0
    /\ drainClock = 0
    /\ shutdownResult = "none"
    /\ exitHow = "running"

\* go func() { ... }()
Spawn ==
    /\ Running /\ mainPc = "spawn"
    /\ mainPc' = "notify"
    /\ servePc' = "check"
    /\ UNCHANGED <<reqVars, durVars, serveErr, shutdownErr, stop, notified, signals, inShutdown, bound,
                   everBound, conns, drainClock, shutdownResult, exitHow>>

\* stop := make(chan os.Signal, 1); signal.Notify(stop, SIGINT, SIGTERM)
Notify ==
    /\ Running /\ mainPc = "notify"
    /\ notified' = TRUE
    /\ mainPc' = "select"
    /\ UNCHANGED <<reqVars, durVars, servePc, serveErr, shutdownErr, stop, signals, inShutdown, bound,
                   everBound, conns, drainClock, shutdownResult, exitHow>>

\* SIGINT or SIGTERM is delivered: before signal.Notify it ends the process,
\* after it the signal goes to stop unless the channel's one slot is taken
Signal ==
    /\ Running /\ signals < MaxSignals
    /\ signals' = signals + 1
    /\ IF notified
       THEN /\ stop' = Min(stop + 1, 1)
            /\ UNCHANGED exitHow
       ELSE /\ exitHow' = "killed"
            /\ UNCHANGED stop
    /\ UNCHANGED <<reqVars, durVars, mainPc, servePc, serveErr, shutdownErr, notified, inShutdown, bound,
                   everBound, conns, drainClock, shutdownResult>>

\* select, case err := <-shutdownErr: a value is a fatal error (log.Fatal),
\* the closed channel gives nil and main goes on to server.Shutdown
SelectServeErr ==
    /\ Running /\ mainPc = "select"
    /\ shutdownErr.buf # <<>> \/ shutdownErr.closed
    /\ IF shutdownErr.buf # <<>>
       THEN /\ shutdownErr' = [shutdownErr EXCEPT !.buf = Tail(@)]
            /\ mainPc' = "exited"
            /\ exitHow' = "fatal"
       ELSE /\ mainPc' = "shutdown"
            /\ UNCHANGED <<shutdownErr, exitHow>>
    /\ UNCHANGED <<reqVars, durVars, servePc, serveErr, stop, notified, signals, inShutdown, bound,
                   everBound, conns, drainClock, shutdownResult>>

\* select, case <-stop
SelectStop ==
    /\ Running /\ mainPc = "select"
    /\ stop > 0
    /\ stop' = stop - 1
    /\ mainPc' = "shutdown"
    /\ UNCHANGED <<reqVars, durVars, servePc, serveErr, shutdownErr, notified, signals, inShutdown, bound,
                   everBound, conns, drainClock, shutdownResult, exitHow>>

\* server.Shutdown(ctx) begins: the server is marked as shutting down and
\* the listeners it tracks are closed
ShutdownBegins ==
    /\ Running /\ mainPc = "shutdown"
    /\ inShutdown' = TRUE
    /\ bound' = IF servePc = "serving" THEN FALSE ELSE bound
    /\ drainClock' = 0
    /\ mainPc' = "draining"
    /\ UNCHANGED <<reqVars, durVars, servePc, serveErr, shutdownErr, stop, notified, signals, everBound,
                   conns, shutdownResult, exitHow>>

\* server.Shutdown returns nil: no connection is active; main returns
ShutdownDrained ==
    /\ Running /\ mainPc = "draining"
    /\ conns = 0
    /\ shutdownResult' = "drained"
    /\ mainPc' = "exited"
    /\ exitHow' = "returned"
    /\ UNCHANGED <<reqVars, durVars, servePc, serveErr, shutdownErr, stop, notified, signals, inShutdown,
                   bound, everBound, conns, drainClock>>

\* server.Shutdown with a context that has no deadline: it returns only when
\* no connection is active
ShutdownNoDeadline ==
    /\ Running /\ mainPc = "draining"
    /\ drainClock = ShutdownTimeout
    /\ conns = 0
    /\ shutdownResult' = "drained"
    /\ mainPc' = "exited"
    /\ exitHow' = "returned"
    /\ UNCHANGED <<reqVars, durVars, servePc, serveErr, shutdownErr, stop, notified, signals, inShutdown,
                   bound, everBound, conns, drainClock>>

\* server.Shutdown returns ctx.Err(): the 10 seconds have passed; the error
\* is logged and main returns
ShutdownTimesOut ==
    /\ Running /\ mainPc = "draining"
    /\ drainClock = ShutdownTimeout
    /\ shutdownResult' = "timeout"
    /\ mainPc' = "exited"
    /\ exitHow' = "returned"
    /\ UNCHANGED <<reqVars, durVars, servePc, serveErr, shutdownErr, stop, notified, signals, inShutdown,
                   bound, everBound, conns, drainClock>>

\* A second passes while server.Shutdown waits
DrainTick ==
    /\ Running /\ mainPc = "draining"
    /\ drainClock < ShutdownTimeout
    /\ drainClock' = drainClock + 1
    /\ UNCHANGED <<reqVars, durVars, mainPc, servePc, serveErr, shutdownErr, stop, notified, signals,
                   inShutdown, bound, everBound, conns, shutdownResult, exitHow>>

\* ListenAndServe: if srv.shuttingDown() { return ErrServerClosed }
ListenAndServeChecks ==
    /\ Running /\ servePc = "check"
    /\ IF inShutdown
       THEN servePc' = "returned" /\ serveErr' = "ErrServerClosed"
       ELSE servePc' = "listen" /\ UNCHANGED serveErr
    /\ UNCHANGED <<reqVars, durVars, mainPc, shutdownErr, stop, notified, signals, inShutdown, bound,
                   everBound, conns, drainClock, shutdownResult, exitHow>>

\* ListenAndServe: net.Listen binds the port, or fails
Listen ==
    /\ Running /\ servePc = "listen"
    /\ \/ /\ bound' = TRUE
          /\ everBound' = TRUE
          /\ servePc' = "track"
          /\ UNCHANGED serveErr
       \/ /\ serveErr' = "bind"
          /\ servePc' = "returned"
          /\ UNCHANGED <<bound, everBound>>
    /\ UNCHANGED <<reqVars, durVars, mainPc, shutdownErr, stop, notified, signals, inShutdown, conns,
                   drainClock, shutdownResult, exitHow>>

\* Serve: if !srv.trackListener(&l, true) { return ErrServerClosed }, with
\* the listener closed on return
TrackListener ==
    /\ Running /\ servePc = "track"
    /\ IF inShutdown
       THEN servePc' = "returned" /\ serveErr' = "ErrServerClosed" /\ bound' = FALSE
       ELSE servePc' = "serving" /\ UNCHANGED <<reqVars, durVars, serveErr, bound>>
    /\ UNCHANGED <<reqVars, durVars, mainPc, shutdownErr, stop, notified, signals, inShutdown, everBound,
                   conns, drainClock, shutdownResult, exitHow>>

\* Serve's accept loop ends: with ErrServerClosed once the server shuts
\* down, with the error of Accept when the listener fails
ServeReturns ==
    /\ Running /\ servePc = "serving"
    /\ IF inShutdown
       THEN serveErr' = "ErrServerClosed"
       ELSE serveErr' = "accept"
    /\ bound' = FALSE
    /\ servePc' = "returned"
    /\ UNCHANGED <<reqVars, durVars, mainPc, shutdownErr, stop, notified, signals, inShutdown, everBound,
                   conns, drainClock, shutdownResult, exitHow>>

\* if err != nil && !errors.Is(err, http.ErrServerClosed) { shutdownErr <- err }
ReportServeErr ==
    /\ Running /\ servePc = "returned"
    /\ IF serveErr # "ErrServerClosed"
       THEN /\ Len(shutdownErr.buf) < 1
            /\ shutdownErr' = [shutdownErr EXCEPT !.buf = Append(@, serveErr)]
       ELSE UNCHANGED shutdownErr
    /\ servePc' = "close"
    /\ UNCHANGED <<reqVars, durVars, mainPc, serveErr, stop, notified, signals, inShutdown, bound,
                   everBound, conns, drainClock, shutdownResult, exitHow>>

\* close(shutdownErr)
CloseShutdownErr ==
    /\ Running /\ servePc = "close"
    /\ shutdownErr' = [shutdownErr EXCEPT !.closed = TRUE]
    /\ servePc' = "finished"
    /\ UNCHANGED <<reqVars, durVars, mainPc, serveErr, stop, notified, signals, inShutdown, bound,
                   everBound, conns, drainClock, shutdownResult, exitHow>>

\* The accept loop takes a connection and its request starts
Accept ==
    /\ Running /\ servePc = "serving" /\ ~inShutdown
    /\ conns < MaxConns
    /\ conns' = conns + 1
    /\ UNCHANGED <<reqVars, durVars, mainPc, servePc, serveErr, shutdownErr, stop, notified, signals,
                   inShutdown, bound, everBound, drainClock, shutdownResult, exitHow>>

\* A request in flight ends and its connection goes idle
RequestEnds ==
    /\ Running /\ conns > 0
    /\ conns' = conns - 1
    /\ UNCHANGED <<reqVars, durVars, mainPc, servePc, serveErr, shutdownErr, stop, notified, signals,
                   inShutdown, bound, everBound, drainClock, shutdownResult, exitHow>>

LifeNext ==
    \/ Spawn
    \/ Notify
    \/ Signal
    \/ SelectServeErr
    \/ SelectStop
    \/ ShutdownBegins
    \/ ShutdownDrained
    \/ ShutdownTimesOut
    \/ DrainTick
    \/ ListenAndServeChecks
    \/ Listen
    \/ TrackListener
    \/ ServeReturns
    \/ ReportServeErr
    \/ CloseShutdownErr
    \/ Accept
    \/ RequestEnds

\* The request paths at rest
ReqIdle ==
    /\ host = <<>>
    /\ port = <<>>
    /\ tokenFile = NoFile
    /\ httpClient = NilClient
    /\ kubeTimeout = 1
    /\ totalRequests = 0
    /\ now = 0
    /\ req = NoRequest
    /\ reqs = <<>>

Init == ReqInit /\ DurIdle /\ LifeInit
Spec == Init /\ [][ReqNext]_vars

\* The goroutine of a request runs, and time passes
FairSpec == Spec /\ WF_vars(DoCancelled) /\ WF_vars(Tick)

ConcSpecInit == ConcInit /\ DurIdle /\ LifeInit
ConcSpec == ConcSpecInit /\ [][ConcNext]_vars

DurSpecInit == ReqIdle /\ DurInit /\ LifeInit
DurSpec == DurSpecInit /\ [][DurNext]_vars

LifeSpecInit == ReqIdle /\ DurIdle /\ LifeInit
LifeSpec == LifeSpecInit /\ [][LifeNext]_vars

\* The main goroutine and the serving goroutine run, and time passes while
\* server.Shutdown waits
LifeFairSpec ==
    /\ LifeSpec
    /\ WF_vars(SelectStop)
    /\ WF_vars(ShutdownBegins)
    /\ WF_vars(DrainTick)
    /\ WF_vars(ShutdownTimesOut)
    /\ WF_vars(ReportServeErr)
    /\ WF_vars(CloseShutdownErr)

----------------------------------------------------------------------------
(* Claims *)

Counted == {i \in ConcReqs : reqs[i].pc \in {"mux", "done", "panicked"}}
Completed == {i \in ConcReqs : reqs[i].pc \in {"done", "panicked"}}
Arrived == {i \in ConcReqs : reqs[i].pc # "none"}

CounterExact ==
    /\ totalRequests = Cardinality(Counted)
    /\ Cardinality(Completed) <= totalRequests
    /\ totalRequests <= Cardinality(Arrived)
    /\ Completed = ConcReqs => totalRequests = MaxReqs
    /\ \A i \in ConcReqs :
          reqs[i].reported # -1 => reqs[i].reported >= 1 /\ reqs[i].reported <= totalRequests

\* C1: on the concurrent path the counter equals, in every state, the number
\* of requests that have passed withRequestMetrics' increment (no increment
\* is lost or applied twice): it is at least the number of completed
\* requests, exactly the number of requests once all have completed whatever
\* their outcome, /metrics never reports more than it, and it never decreases.
C1_CounterCountsEachRequestOnce ==
    [](CounterExact) /\ [][totalRequests' >= totalRequests]_vars

C1_Witness ==
    /\ Completed = ConcReqs
    /\ totalRequests = MaxReqs
    /\ \E i \in ConcReqs : reqs[i].status = 500
    /\ \E i \in ConcReqs : reqs[i].status \in {404, 405, 503} \/ reqs[i].pc = "panicked"

\* The tighter of the configured timeout and the inbound request's own
\* cancellation, for the call that started at r.ctxStart
Tighter(r) == Min(r.ctxStart + kubeTimeout, r.cancelAt)

BoundedWait ==
    /\ req.pc = "waiting" => now <= Max(req.ctxStart, Tighter(req))
    /\ (req.pc = "done" /\ req.upstreamCalls = 1 /\ req.up.kind = "ctx") =>
          /\ req.resp.status = 500
          /\ now <= Max(req.ctxStart, Tighter(req))

\* C2: a listing request blocked in the upstream call is never still blocked
\* after the tighter of the configured timeout and the inbound request's own
\* cancellation; when the upstream has not answered by then the request ends
\* with 500 at that time; and a blocked request always eventually responds.
C2_FetchBoundedByTighterDeadline ==
    [](BoundedWait) /\ ((req.pc = "waiting") ~> (req.pc = "done"))

C2_Witness ==
    /\ req.pc = "done"
    /\ req.up.kind = "ctx"
    /\ req.upstreamCalls = 1
    /\ req.cancelAt < req.ctxStart + kubeTimeout
    /\ req.cancelAt > req.ctxStart
    /\ now = req.cancelAt
    /\ req.resp.status = 500

Blank(v) == TrimSpace(v) = <<>>
CredentialsOk ==
    httpClient # NilClient /\ tokenFile.readable /\ ~Blank(tokenFile.content)
ReadyDone == req.pc = "done" /\ req.path = ReadyPath
ReadyBody == <<Lex("{", 1), Lex("\"status\":\"ready\"", 16), Lex("}", 1), WS(1)>>
NotReadyBody == <<Lex("{", 1), Lex("\"status\":\"not ready\"", 20), Lex("}", 1), WS(1)>>

\* C3 as amended: /readyz answers 200 {"status":"ready"} when either
\* cluster-presence variable is absent or blank after trimming, whatever the
\* client and the token file; when both are set it answers 503
\* {"status":"not ready"} if the client is not constructed, the token file
\* cannot be read or the token is blank after trimming, and 200 otherwise.
C3_ReadyWhenEitherVariableAbsent ==
    ReadyDone =>
        IF Blank(host) \/ Blank(port) \/ CredentialsOk
        THEN req.resp.status = 200 /\ req.resp.body = ReadyBody
        ELSE req.resp.status = 503 /\ req.resp.body = NotReadyBody

\* C3 as stated: ready unconditionally only when both variables are absent;
\* with at least one of them set, not ready whenever the client is not
\* constructed or the token is unreadable or blank.
C3_NotReadyUnlessBothAbsent ==
    ReadyDone =>
        /\ (Blank(host) /\ Blank(port)) => req.resp.status = 200
        /\ (~(Blank(host) /\ Blank(port)) /\ ~CredentialsOk) => req.resp.status = 503

C3_Witness ==
    /\ ReadyDone
    /\ ~Blank(host) /\ Blank(port)
    /\ ~CredentialsOk
    /\ req.resp.status = 200

ListingGet == req.path = ApiPath /\ req.method = GET
ItemsBody == <<Lex("{", 1), Lex("\"items\":[]", 10), Lex("}", 1), WS(1)>>

\* C4: a GET on the listing endpoint with the host or the port variable
\* missing or empty answers 200 {"items":[]} and neither reads the token file
\* nor calls the upstream, whatever the token file and the client.
C4_NoClusterGivesEmptyItems ==
    (ListingGet /\ (host = <<>> \/ port = <<>>)) =>
        /\ req.pc \notin {"waiting", "panicked"}
        /\ req.tokenReads = 0
        /\ req.upstreamCalls = 0
        /\ req.pc = "done" => req.resp.status = 200 /\ req.resp.body = ItemsBody

C4_Witness ==
    /\ ListingGet /\ req.pc = "done"
    /\ host # <<>> /\ port = <<>>
    /\ ~tokenFile.readable
    /\ httpClient = NilClient
    /\ req.resp.status = 200

UpstreamAnswered == req.pc = "done" /\ req.upstreamCalls = 1 /\ req.up.kind = "response"
Excerpt == TrimSpace(LimitRead(req.up.body, maxIngressesBodyBytes))

\* C5: when the upstream answers with a status other than 200 the listing
\* endpoint answers 500 with a text that contains the upstream status line
\* and the excerpt of the body (its first 4 MiB, trimmed), and no document.
C5_UpstreamErrorGives500WithStatusAndExcerpt ==
    (UpstreamAnswered /\ req.up.code # 200) =>
        /\ req.resp.status = 500
        /\ Contains(req.resp.body, <<StatusLine(req.up.code)>>)
        /\ Contains(req.resp.body, Excerpt)
        /\ ByteLen(Excerpt) <= maxIngressesBodyBytes
        /\ ~IsObjectDoc(Tokens(req.resp.body))

C5_Witness ==
    /\ UpstreamAnswered
    /\ req.up.code = 403
    /\ req.up.body = <<WS(1), Junk(14), WS(2)>>
    /\ req.resp.body = <<Lex("kubernetes api error: ", 22), Lex("403 Forbidden", 13),
                         WS(1), Junk(14), WS(1)>>

\* C6: a request to the listing endpoint with a method other than GET is
\* answered 405 and neither reads the token file nor calls the upstream.
C6_NonGetIs405 ==
    (req.path = ApiPath /\ req.method # GET) =>
        /\ req.pc \notin {"waiting", "panicked"}
        /\ req.tokenReads = 0
        /\ req.upstreamCalls = 0
        /\ req.pc = "done" => req.resp.status = 405

C6_Witness ==
    /\ req.path = ApiPath /\ req.method = "POST" /\ req.pc = "done"
    /\ ~Blank(host) /\ ~Blank(port) /\ CredentialsOk
    /\ req.resp.status = 405

\* C8 as stated: every 200 response of a GET on the listing endpoint carries
\* a JSON object.
C8_OkResponseIsJsonObject ==
    (ListingGet /\ req.pc = "done" /\ req.resp.status = 200) =>
        IsObjectDoc(Tokens(req.resp.body))

\* C9: every response the handler chain writes, on every route and with
\* every status, carries the five hardening headers with their fixed values.
C9_EveryResponseHasSecurityHeaders ==
    req.pc = "done" =>
        \A n \in DOMAIN SecurityHeaders :
            n \in DOMAIN req.resp.hdrs /\ req.resp.hdrs[n] = SecurityHeaders[n]

C9_Witness ==
    /\ req.pc = "done"
    /\ req.path = ApiPath
    /\ req.resp.status = 500
    /\ req.resp.hdrs["Content-Type"] = "text/plain; charset=utf-8"
    /\ req.resp.hdrs["Permissions-Policy"] = "camera=(), microphone=(), geolocation=()"

Trimmed == TrimSpace(rawEnv)
AsInt == Atoi(Trimmed)
AsDuration == ParseDuration(Trimmed)
PositiveInt == AsInt.ok /\ ~AsInt.neg /\ ~IsZero(AsInt.mag)
PositiveDuration ==
    ~AsInt.ok /\ AsDuration.ok /\ ~AsDuration.neg /\ ~IsZero(AsDuration.mag)
FallbackCase ==
    \/ Trimmed = <<>>
    \/ AsInt.ok /\ (AsInt.neg \/ IsZero(AsInt.mag))
    \/ ~AsInt.ok /\ AsDuration.ok /\ (AsDuration.neg \/ IsZero(AsDuration.mag))
    \/ ~AsInt.ok /\ ~AsDuration.ok
\* The duration d is exactly the natural number n of nanoseconds
IsExactly(d, n) == ~Negative64(d) /\ FromInt64(d) = n

\* C7 as stated: the resolved timeout is the fallback for a value that is
\* empty after trimming, a non-positive integer, a non-positive duration or
\* unparsable; exactly that many seconds for a positive integer string; the
\* parsed duration for a positive duration string.
C7_ResolvedTimeoutAsSpecified ==
    durPc = "resolved" =>
        /\ FallbackCase => resolved = fallback
        /\ PositiveInt => IsExactly(resolved, MulAll(AsInt.mag, NanosPerSecond))
        /\ PositiveDuration => IsExactly(resolved, AsDuration.mag)

\* C10 as stated: server.Shutdown is never called before the listener has
\* bound, and the process exits from main only after server.Shutdown has
\* returned (drained or timed out).
C10_ShutdownOnlyAfterBind ==
    /\ mainPc = "draining" => everBound
    /\ exitHow = "returned" => shutdownResult \in {"drained", "timeout"}

\* ListenAndServe has returned an error other than ErrServerClosed
FatalServeError == serveErr \in {"bind", "accept"}

\* C11 as stated: whenever ListenAndServe returns an error other than
\* ErrServerClosed, server.Shutdown is never attempted and the process does
\* not leave main by returning: it ends through log.Fatal, whatever the
\* interleaving with a termination signal.
C11_FatalServeErrorNeverDrains ==
    FatalServeError =>
        /\ mainPc \notin {"shutdown", "draining"}
        /\ exitHow # "returned"

\* The position of the main path in the lifecycle
MainRank ==
    CASE mainPc = "spawn" -> 0
      [] mainPc = "notify" -> 1
      [] mainPc = "select" -> 2
      [] mainPc = "shutdown" -> 3
      [] mainPc = "draining" -> 4
      [] OTHER -> 5
\* The main path has taken a termination signal from stop while the server
\* is Serving
SignalTakenWhileServing == mainPc = "shutdown" /\ servePc = "serving"
\* The lifecycle never moves backwards, and server.Shutdown begins only from
\* a state in which it had not begun
DrainOnceForward ==
    /\ MainRank' >= MainRank
    /\ (mainPc # "draining" /\ mainPc' = "draining") => (mainPc = "shutdown" /\ ~inShutdown)
\* The drain is bounded by 10 seconds and its result, nil or an error, leads
\* only to the return of main
DrainBoundedAndLogged ==
    /\ drainClock <= ShutdownTimeout
    /\ mainPc \in {"shutdown", "draining"} => exitHow = "running"
    /\ shutdownResult # "none" => (mainPc = "exited" /\ exitHow = "returned")
\* The send on shutdownErr finds the buffer free, and the channel is closed
\* at the one place the serving path closes it
ReportNeverBlocks ==
    /\ servePc = "returned" => (shutdownErr.buf = <<>> /\ ~shutdownErr.closed)
    /\ shutdownErr.closed <=> servePc = "finished"

\* C12: once the main path has taken a termination signal while Serving, the
\* lifecycle goes Draining and then Stopped: server.Shutdown is attempted
\* once with its 10-second bound, its error or timeout is only logged, main
\* returns whether or not the requests in flight finished, the lifecycle
\* never moves backwards nor stays in Draining; and the serving path never
\* blocks on reporting its result.
C12_SignalDrainsThenStops ==
    /\ [][DrainOnceForward]_vars
    /\ [](DrainBoundedAndLogged)
    /\ [](ReportNeverBlocks)
    /\ SignalTakenWhileServing ~> (mainPc = "draining")
    /\ (mainPc = "draining") ~> (mainPc = "exited" /\ exitHow = "returned")
    /\ (servePc = "returned") ~> (servePc = "finished" \/ ~Running)
\* The drain timed out with a request still in flight, and main returned
C12_Witness ==
    /\ mainPc = "exited" /\ exitHow = "returned"
    /\ shutdownResult = "timeout"
    /\ drainClock = ShutdownTimeout
    /\ conns > 0
    /\ everBound

\* A GET on the listing endpoint whose handler has ended
ListingEnded == ListingGet /\ req.pc \in {"done", "panicked"}
\* The handler called httpClient.Do once if it got as far as the call, and
\* not at all otherwise
OneCallNoRetry ==
    /\ req.upstreamCalls <= 1
    /\ ListingEnded => req.upstreamCalls = (IF fetchStage = "do" THEN 1 ELSE 0)
    /\ ListingEnded => req.tokenReads <= 1
\* What the handler answered is what handleIngresses makes of the
\* environment, the token file, the client and the upstream's answer as they
\* are now, whatever the requests before it did
OutcomeFromPresent ==
    ListingEnded =>
        LET out == handleIngresses(GET, SetSecurityHeaders(EmptyHdrs), req.up) IN
        /\ req.resp = out.resp
        /\ (req.pc = "panicked") = out.panicked
\* No step of a request changes the client or the configuration
RequestKeepsConfig == (req' # NoRequest) => UNCHANGED Config

\* C13: a request to the listing endpoint makes at most one upstream call
\* and never a second one after a failure (transport error, timeout, status
\* other than 200, undecodable body); no request changes the shared client
\* or the configuration, so what a later request answers is determined by
\* the environment, the token file and the upstream at that time.
C13_OneUpstreamCallAndNoCarryOver ==
    /\ [](OneCallNoRetry)
    /\ [](OutcomeFromPresent)
    /\ [][RequestKeepsConfig]_vars
\* A second request that failed on the upstream after exactly one call
C13_Witness ==
    /\ totalRequests = 2
    /\ ListingEnded /\ req.pc = "done"
    /\ req.resp.status = 500
    /\ req.upstreamCalls = 1
    /\ req.up.kind \in {"transport", "ctx"}

\* C14 as stated: for every value of the timeout variable and a positive
\* fallback, getEnvDuration returns a strictly positive duration, positive
\* integer strings whose seconds exceed the 64-bit range of a duration
\* included.
C14_ResolvedTimeoutIsPositive ==
    (durPc = "resolved" /\ Positive64(fallback)) => Positive64(resolved)

\* isReady's branch "outside Kubernetes": a variable is empty after trimming
StandaloneReady == TrimSpace(host) = <<>> \/ TrimSpace(port) = <<>>

\* C15 as stated: isReady takes its standalone branch exactly when
\* fetchIngresses short-circuits to the empty collection, for every host and
\* port (values of white space included): a GET on the listing endpoint
\* answers 200 {"items":[]} with no token read and no upstream call if and
\* only if the standalone branch applies.
C15_ReadyAndListingAgreeOnCluster ==
    ListingEnded =>
        (StandaloneReady <=>
            /\ req.pc = "done"
            /\ req.resp.status = 200
            /\ req.resp.body = ItemsBody
            /\ req.tokenReads = 0
            /\ req.upstreamCalls = 0)

====
